---- MODULE Spec2Model ----
(***************************************************************************)
(* Dropbox OAuth (PKCE) commands of src-tauri/src/lib.rs: the shared       *)
(* verifier slot CODE_VERIFIER, the start-auth and exchange commands, the  *)
(* refresh command, and the desktop flow with its loopback callback        *)
(* listener (wait_for_oauth_callback).                                     *)
(*                                                                         *)
(* Text is modelled as a sequence of one-character strings, so that the    *)
(* listener's request-line parsing is computed character by character as   *)
(* the code computes it.                                                   *)
(***************************************************************************)
EXTENDS Naturals, Sequences, FiniteSets

(***************************************************************************)
(* Bounds of the model.                                                    *)
(***************************************************************************)
\* verifiers that generate_code_verifier may hand out in one run
MaxVerifiers == 2

(***************************************************************************)
(* Text helpers: the str methods the listener uses.                        *)
(***************************************************************************)
None == [some |-> FALSE, val |-> <<>>]
Some(v) == [some |-> TRUE, val |-> v]

\* str::starts_with
StartsWith(s, pat) ==
    /\ Len(pat) <= Len(s)
    /\ SubSeq(s, 1, Len(pat)) = pat

\* str::find: the 1-based position of the first occurrence of pat, 0 if none
Find(s, pat) ==
    LET hits == {i \in 1..Len(s) : /\ i + Len(pat) - 1 <= Len(s)
                                   /\ SubSeq(s, i, i + Len(pat) - 1) = pat}
    IN  IF hits = {} THEN 0 ELSE CHOOSE i \in hits : \A j \in hits : i <= j

\* str::split(ch): the pieces between occurrences of the character ch
RECURSIVE Split(_, _)
Split(s, ch) ==
    LET p == Find(s, <<ch>>)
    IN  IF p = 0 THEN <<s>>
        ELSE <<SubSeq(s, 1, p - 1)>> \o Split(SubSeq(s, p + 1, Len(s)), ch)

\* str::split_once(ch): (before, after) the first ch, None when ch is absent
SplitOnce(s, ch) ==
    LET p == Find(s, <<ch>>)
    IN  IF p = 0 THEN None
        ELSE Some(<<SubSeq(s, 1, p - 1), SubSeq(s, p + 1, Len(s))>>)

\* str::lines().next(): the text before the first "\n", without the "\r" of
\* a "\r\n" ending; None for empty text
FirstLine(s) ==
    IF s = <<>> THEN None
    ELSE LET p == Find(s, <<"\n">>)
             raw == IF p = 0 THEN s ELSE SubSeq(s, 1, p - 1)
         IN  IF p # 0 /\ raw # <<>> /\ raw[Len(raw)] = "\r"
             THEN Some(SubSeq(raw, 1, Len(raw) - 1))
             ELSE Some(raw)

(***************************************************************************)
(* Literal texts.                                                          *)
(***************************************************************************)
T_GET == <<"G", "E", "T">>
T_POST == <<"P", "O", "S", "T">>
P_CALLBACK == <<"/", "c", "a", "l", "l", "b", "a", "c", "k">>
P_CALLBACK_LONGER == P_CALLBACK \o <<"x">>
P_FAVICON == <<"/", "f", "a", "v", "i", "c", "o", "n", ".", "i", "c", "o">>
K_CODE == <<"c", "o", "d", "e">>
K_STATE == <<"s", "t", "a", "t", "e">>
K_ERROR == <<"e", "r", "r", "o", "r">>
V_HTTP11 == <<" ", "H", "T", "T", "P", "/", "1", ".", "1">>
\* a malformed version token that holds a question mark
V_HTTP_QMARK == <<" ", "H", "T", "T", "P", "?", "1">>
CRLF == <<"\r", "\n">>

\* the literal of line 504
GET_CALLBACK == <<"G", "E", "T", " ", "/", "c", "a", "l", "l", "b", "a", "c", "k">>
\* the literal of line 507
SPACE_HTTP == <<" ", "H", "T", "T", "P">>

\* authorization codes a redirect may carry
Codes == {<<"X", "Y", "Z">>, <<"A", "B", "C">>}
\* the code argument of the exchange commands, which they pass on unchanged
CommandCodes == {<<"X", "Y", "Z">>}
\* values of format!("{:x}", rand::random::<u64>()): hexadecimal texts, one of
\* them a proper prefix of the other
StateTokens == {<<"a", "1">>, <<"a", "1", "f">>}
\* values of the provider's error parameter
ErrorCodes == {<<"d", "e", "n", "i", "e", "d">>}

(***************************************************************************)
(* The requests the loopback port may receive.  A request is described by  *)
(* its parts, and Render gives the bytes that one socket.read returns for  *)
(* it (ASCII, for which String::from_utf8_lossy is the same text).         *)
(***************************************************************************)
Param(k, v) == [key |-> k, val |-> v]

Params ==
    {Param(K_CODE, c) : c \in Codes}
        \cup {Param(K_STATE, s) : s \in StateTokens}
        \cup {Param(K_ERROR, e) : e \in ErrorCodes}

\* a query: absent, or a list of at most two parameters
Queries ==
    {None, Some(<<>>)}
        \cup {Some(<<p>>) : p \in Params}
        \cup {Some(<<p, q>>) : p \in Params, q \in Params}

Request(m, p, q, v) == [method |-> m, path |-> p, query |-> q, version |-> v]

\* a connection on which read returns 0 bytes
EmptyRead == Request(<<>>, <<>>, None, <<>>)

Requests ==
    {Request(T_GET, p, q, V_HTTP11) :
        p \in {P_CALLBACK, P_CALLBACK_LONGER, P_FAVICON}, q \in Queries}
        \cup {Request(T_POST, P_CALLBACK, Some(<<Param(K_CODE, c), Param(K_STATE, s)>>),
                      V_HTTP11) : c \in Codes, s \in StateTokens}
        \cup {Request(T_GET, P_CALLBACK, Some(<<Param(K_CODE, c)>>), <<>>) : c \in Codes}
        \cup {Request(T_GET, P_CALLBACK, None, V_HTTP_QMARK)}
        \cup {EmptyRead}

RECURSIVE RenderParams(_)
RenderParams(ps) ==
    IF ps = <<>> THEN <<>>
    ELSE ps[1].key \o <<"=">> \o ps[1].val
            \o (IF Len(ps) = 1 THEN <<>> ELSE <<"&">> \o RenderParams(Tail(ps)))

Render(r) ==
    IF r.method = <<>> THEN <<>>
    ELSE r.method \o <<" ">> \o r.path
            \o (IF r.query.some THEN <<"?">> \o RenderParams(r.query.val) ELSE <<>>)
            \o (IF r.version = <<>> THEN <<>> ELSE r.version \o CRLF \o CRLF)

\* the places of the parameters named k in the query of request r
ParamPlaces(r, k) ==
    IF r.query.some THEN {j \in 1..Len(r.query.val) : r.query.val[j].key = k} ELSE {}

\* request r carries a parameter named k
HasParam(r, k) == ParamPlaces(r, k) # {}

\* the value of the parameter named k of request r (of the last one, when the
\* query repeats it)
ParamValue(r, k) ==
    LET last == CHOOSE j \in ParamPlaces(r, k) : \A i \in ParamPlaces(r, k) : i <= j
    IN  r.query.val[last].val

\* line 495: the size of the buffer of the single read
BUFFER_SIZE == 4096

\* lines 495-500: the bytes that the single read hands to the parser
SocketRead(bytes) ==
    IF Len(bytes) <= BUFFER_SIZE THEN bytes ELSE SubSeq(bytes, 1, BUFFER_SIZE)

(***************************************************************************)
(* wait_for_oauth_callback: what one iteration of its loop does with the   *)
(* bytes of one connection.                                                *)
(***************************************************************************)
\* lines 510-523: the last code, state and error values of the query
RECURSIVE ScanParams(_, _)
ScanParams(pieces, acc) ==
    IF pieces = <<>> THEN acc
    ELSE LET kv == SplitOnce(pieces[1], "=")
             next ==
                 IF ~kv.some THEN acc
                 ELSE IF kv.val[1] = K_CODE THEN [acc EXCEPT !.code = Some(kv.val[2])]
                 ELSE IF kv.val[1] = K_STATE THEN [acc EXCEPT !.state = Some(kv.val[2])]
                 ELSE IF kv.val[1] = K_ERROR THEN [acc EXCEPT !.error = Some(kv.val[2])]
                 ELSE acc
         IN  ScanParams(Tail(pieces), next)

ParseQuery(query) ==
    ScanParams(Split(query, "&"), [code |-> None, state |-> None, error |-> None])

\* the responses written to the socket
NoResponse == [page |-> "none", detail |-> <<>>]
NotFound == [page |-> "not_found", detail |-> <<>>]
SuccessPage == [page |-> "success", detail |-> <<>>]
ErrorPage(err) == [page |-> "error", detail |-> err]

Outcome(k, v, resp) == [kind |-> k, value |-> v, response |-> resp]
\* no request handled
NoOutcome == Outcome("none", <<>>, NoResponse)

\* variant: the state is compared as a prefix of the expected state
StateRejected_ByPrefix(state, expected_state) ==
    state.some /\ ~StartsWith(expected_state, state.val)

\* variant: a request without a state parameter is skipped too
StateRejected_WhenAbsent(state, expected_state) ==
    ~state.some \/ state.val # expected_state

\* lines 549-554: the state check; TRUE when the request is to be skipped
StateRejected(state, expected_state) ==
    state.some /\ state.val # expected_state

\* variant: the state check comes before the error check
HandleQuery_StateFirst(query, expected_state) ==
    LET q == ParseQuery(query)
    IN  IF q.state.some /\ q.state.val # expected_state
        THEN Outcome("continue", <<>>, NoResponse)
        ELSE IF q.error.some
        THEN Outcome("error", q.error.val, ErrorPage(q.error.val))
        ELSE IF q.code.some
        THEN Outcome("code", q.code.val, SuccessPage)
        ELSE Outcome("not_found", <<>>, NotFound)

\* lines 525-580, for the query text of a /callback request line
HandleQuery(query, expected_state) ==
    LET q == ParseQuery(query)
    IN  IF q.error.some
        THEN Outcome("error", q.error.val, ErrorPage(q.error.val))
        ELSE IF StateRejected(q.state, expected_state)
        THEN Outcome("continue", <<>>, NoResponse)
        ELSE IF q.code.some
        THEN Outcome("code", q.code.val, SuccessPage)
        ELSE Outcome("not_found", <<>>, NotFound)

\* line 504
IsCallbackLine(line) == StartsWith(line, GET_CALLBACK)

\* lines 500-588: the outcome of one connection whose read returned `request`.
\* The slice of line 508 panics when the question mark lies after " HTTP".
HandleRequest(request, expected_state) ==
    LET first == FirstLine(request)
        line == first.val
        query_start == Find(line, <<"?">>)
        http == Find(line, SPACE_HTTP)
        query_end == IF http = 0 THEN Len(line) ELSE http - 1
    IN  IF first.some /\ IsCallbackLine(line) /\ query_start # 0
        THEN IF query_start > query_end
             THEN Outcome("panic", <<>>, NoResponse)
             ELSE HandleQuery(SubSeq(line, query_start + 1, query_end), expected_state)
        ELSE Outcome("not_found", <<>>, NotFound)

(***************************************************************************)
(* The provider's token endpoint, as seen by the reqwest calls.            *)
(***************************************************************************)
TokenBody ==
    [raw |-> "{\"access_token\":\"x\",\"token_type\":\"bearer\"}", json |-> TRUE,
     fields |-> {<<"access_token", "x">>, <<"token_type", "bearer">>}]
ErrorBody ==
    [raw |-> "{\"error\":\"invalid_grant\"}", json |-> TRUE,
     fields |-> {<<"error", "invalid_grant">>}]
GarbageBody == [raw |-> "<html>", json |-> FALSE, fields |-> {}]

\* a JSON object's member of the given name
HasField(body, name) == \E member \in body.fields : member[1] = name
Field(body, name) == (CHOOSE member \in body.fields : member[1] = name)[2]

\* what send().await and text().await may yield
ProviderResponses ==
    [transport : {"ok"}, status : {200, 400}, body : {TokenBody, ErrorBody, GarbageBody}]
        \cup [transport : {"send_error", "read_error"}, status : {0}, body : {GarbageBody}]

\* StatusCode::is_success
IsSuccess(status) == 200 <= status /\ status <= 299

\* serde_json::from_str::<DropboxTokenResponse>: lines 154-162
ParsesAsToken(body) ==
    body.json /\ HasField(body, "access_token") /\ HasField(body, "token_type")

\* serde_json::from_str::<DropboxErrorResponse>: lines 164-168
ParsesAsError(body) == body.json /\ HasField(body, "error")

\* lines 194-218 (and 348-373, 458-476): the result of an exchange
ExchangeResult(resp) ==
    IF resp.transport = "send_error" THEN "http_error"
    ELSE IF resp.transport = "read_error" THEN "read_error"
    ELSE IF IsSuccess(resp.status)
    THEN IF ParsesAsToken(resp.body) THEN "token" ELSE "parse_error"
    ELSE IF ParsesAsError(resp.body) THEN "provider_error" ELSE "unknown_error"

\* variant: the token returned is built from the body's token_type
ExchangeCarries_TokenType(resp) ==
    LET result == ExchangeResult(resp)
    IN  IF result = "token" THEN Field(resp.body, "token_type")
        ELSE IF result = "provider_error" THEN Field(resp.body, "error")
        ELSE IF result \in {"parse_error", "unknown_error"} THEN resp.body.raw
        ELSE resp.transport

\* lines 194-218: what the result carries: the access token of the token
\* (202, 210), the provider's error code (212-217), the raw body in the parse
\* error (203) and in the fallback error (213-216), the transport's error
\* otherwise (196, 199)
ExchangeCarries(resp) ==
    LET result == ExchangeResult(resp)
    IN  IF result = "token" THEN Field(resp.body, "access_token")
        ELSE IF result = "provider_error" THEN Field(resp.body, "error")
        ELSE IF result \in {"parse_error", "unknown_error"} THEN resp.body.raw
        ELSE resp.transport

\* lines 239-248: the result of a refresh
RefreshResult(resp) ==
    IF resp.transport = "send_error" THEN "http_error"
    ELSE IF resp.transport = "read_error" THEN "read_error"
    ELSE IF IsSuccess(resp.status)
    THEN IF ParsesAsToken(resp.body) THEN "token" ELSE "parse_error"
    ELSE "refresh_failed"

(***************************************************************************)
(* State.                                                                  *)
(***************************************************************************)
VARIABLES
    CODE_VERIFIER,  \* the static of line 12: NoVerifier or a verifier
    generated,      \* how many verifiers generate_code_verifier has produced
    call,           \* the running or last invocation of each exchange command
    refresh,        \* the running or last invocation of dropbox_refresh_token
    flow,           \* the running or last invocation of dropbox_oauth_flow
    listener,       \* whether the flow holds the TcpListener of the callback port
    trace,          \* what the listener saw and wrote, when the run records it
    lock,           \* the Mutex of line 12: who holds its guard, and its poison flag
    other           \* a second invocation of dropbox_oauth_flow, as far as the port goes

vars == <<CODE_VERIFIER, generated, call, refresh, flow, listener, trace, lock, other>>

\* nobody holds the guard
NoHolder == "none"
\* the Mutex as Mutex::new leaves it
FreeLock == [holder |-> NoHolder, poisoned |-> FALSE]
\* CODE_VERIFIER.lock() returns (it blocks while another guard is alive)
LockAvailable == lock.holder = NoHolder

\* line 252, and the redirect_uri of line 383
ANDROID_REDIRECT_URI == "ynab4viewer://oauth/callback"
LOOPBACK_REDIRECT_URI == "http://localhost:8742/callback"

NoVerifier == 0
\* the two exchange commands; each may be invoked again once it has returned
Calls == {"dropbox_exchange_code", "dropbox_exchange_code_android"}

\* a request-shaped value for "no connection handled yet"
NoRequest == Request(<<"-">>, <<>>, None, <<>>)

\* the form of a request to the token endpoint: lines 187-193, 341-347, 451-457
TokenRequest(code, redirect_uri, verifier) ==
    [code |-> code, redirect_uri |-> redirect_uri, code_verifier |-> verifier]
NoTokenRequest == TokenRequest(<<>>, "", NoVerifier)

\* no answer from the provider (yet)
NoAnswer == [transport |-> "none", status |-> 0, body |-> GarbageBody]

IdleCall == [pc |-> "idle", sent |-> NoTokenRequest, answer |-> NoAnswer,
             result |-> "none", carries |-> ""]
IdleRefresh == [pc |-> "idle", result |-> "none"]
IdleFlow == [pc |-> "idle", verifier |-> NoVerifier, state |-> <<>>, out |-> NoOutcome,
             code |-> <<>>, error |-> <<>>, sent |-> NoTokenRequest, result |-> "none"]

\* the record of the listener's connections: the request handled last, the
\* response written to it, and the kinds of outcome that sent the listener
\* back to accept before it; `on` tells whether the run records these and the
\* other outputs that no later step of the program reads
IdleOther == [pc |-> "idle", result |-> "none"]

NoTrace == [on |-> FALSE, req |-> NoRequest, resp |-> NoResponse, skipped |-> {}]
EmptyTrace == [NoTrace EXCEPT !.on = TRUE]

Init ==
    /\ CODE_VERIFIER = NoVerifier
    /\ generated = 0
    /\ call = [i \in Calls |-> IdleCall]
    /\ refresh = IdleRefresh
    /\ flow = IdleFlow
    /\ listener = FALSE
    /\ trace = NoTrace
    /\ lock = FreeLock
    /\ other = IdleOther

(***************************************************************************)
(* Start-auth commands.                                                    *)
(***************************************************************************)
\* lines 106-110: a verifier no earlier call returned
generate_code_verifier == generated + 1

\* variant: the store keeps a verifier that is already in the slot
StoreVerifier_KeepsFirst(stored, verifier) ==
    IF stored = NoVerifier THEN verifier ELSE stored
\* lines 133-136 and 300-303: the slot after the store
StoreVerifier(stored, verifier) == verifier

\* lines 134-136 and 301-303: `if let Ok(mut stored) = CODE_VERIFIER.lock()`
\* skips the store when the lock is poisoned
SlotAfterStart(stored, verifier, l) ==
    IF l.poisoned THEN stored ELSE StoreVerifier(stored, verifier)

\* lines 138-150 (305-320): what a start-auth command returns: the URL built
\* with the challenge of the verifier it generated, whatever the lock gave
StartAuthReturn(l, verifier) == [kind |-> "url", code_challenge |-> verifier]

\* lines 128-151
dropbox_start_auth ==
    /\ generated < MaxVerifiers
    /\ LockAvailable
    /\ generated' = generated + 1
    /\ CODE_VERIFIER' = SlotAfterStart(CODE_VERIFIER, generate_code_verifier, lock)
    /\ UNCHANGED <<call, refresh, flow, listener, trace, lock, other>>

\* lines 295-321
dropbox_get_auth_url ==
    /\ generated < MaxVerifiers
    /\ LockAvailable
    /\ generated' = generated + 1
    /\ CODE_VERIFIER' = SlotAfterStart(CODE_VERIFIER, generate_code_verifier, lock)
    /\ UNCHANGED <<call, refresh, flow, listener, trace, lock, other>>

(***************************************************************************)
(* Exchange commands: the part up to send().await, and the part after it.  *)
(***************************************************************************)
\* variant: an empty slot falls back to the verifier generated last
ReadVerifier_FallsBack(stored) ==
    IF stored = NoVerifier THEN generated ELSE stored

\* lines 177-181 and 329-333: the verifier the exchange works with
ReadVerifier(stored) == stored

\* variant: the slot is cleared whatever the result
SlotAfterExchange_AlwaysCleared(stored, result) == NoVerifier

\* lines 201-218 and 355-373: the slot after an exchange has ended with `result`;
\* it is cleared (lines 205-208, 359-362) once the token has been parsed
SlotAfterExchange(stored, result) ==
    IF result = "token" THEN NoVerifier ELSE stored

\* variant: the guard of the read lives until the function returns
LockAfterRead_KeptOverAwait(l, who) == [l EXCEPT !.holder = who]

\* line 181 and 333: the block of the read ends and drops the guard before the
\* request is built and sent
LockAfterRead(l, who) == [l EXCEPT !.holder = NoHolder]

\* lines 177-196 and 329-350, for an invocation of command op; a poisoned
\* lock ends it at line 179 (331) through map_err and `?`
ExchangeBegin(op, code, redirect_uri) ==
    /\ call[op].pc \in {"idle", "done"}
    /\ LockAvailable
    /\ LET verifier == ReadVerifier(CODE_VERIFIER)
       IN  call' = [call EXCEPT ![op] =
                IF lock.poisoned
                THEN [pc |-> "done", sent |-> NoTokenRequest, answer |-> NoAnswer,
                      result |-> "lock_error", carries |-> ""]
                ELSE IF verifier = NoVerifier
                THEN [pc |-> "done", sent |-> NoTokenRequest, answer |-> NoAnswer,
                      result |-> "no_verifier", carries |-> ""]
                ELSE [pc |-> "awaiting",
                      sent |-> TokenRequest(code, redirect_uri, verifier),
                      answer |-> NoAnswer, result |-> "none", carries |-> ""]]
    /\ lock' = IF call'[op].pc = "awaiting" THEN LockAfterRead(lock, op) ELSE lock
    /\ UNCHANGED <<CODE_VERIFIER, generated, refresh, flow, listener, trace, other>>

\* lines 172-196; redirect_uri is an argument of the command
dropbox_exchange_code ==
    \E code \in CommandCodes :
        ExchangeBegin("dropbox_exchange_code", code, "redirect_uri")

\* lines 325-350
dropbox_exchange_code_android ==
    \E code \in CommandCodes :
        ExchangeBegin("dropbox_exchange_code_android", code, ANDROID_REDIRECT_URI)

\* lines 198-218 and 352-373: the provider's answer arrives; the clear of
\* lines 206-208 (360-362) is skipped when the lock is poisoned
ExchangeResume(i) ==
    /\ call[i].pc = "awaiting"
    /\ \E resp \in ProviderResponses :
        LET result == ExchangeResult(resp)
        IN  /\ result = "token" => LockAvailable
            /\ call' = [call EXCEPT ![i].pc = "done", ![i].answer = resp,
                                    ![i].result = result,
                                    ![i].carries = ExchangeCarries(resp)]
            /\ CODE_VERIFIER' = IF lock.poisoned THEN CODE_VERIFIER
                                ELSE SlotAfterExchange(CODE_VERIFIER, result)
    /\ UNCHANGED <<generated, refresh, flow, listener, trace, lock, other>>

(***************************************************************************)
(* dropbox_refresh_token, lines 223-249.                                   *)
(***************************************************************************)
RefreshBegin ==
    /\ refresh.pc # "awaiting"
    /\ refresh' = [pc |-> "awaiting", result |-> "none"]
    /\ UNCHANGED <<CODE_VERIFIER, generated, call, flow, listener, trace, lock, other>>

\* variant: a refresh that returns a token clears the slot, as an exchange does
SlotAfterRefresh_ClearedOnToken(stored, result) ==
    IF result = "token" THEN NoVerifier ELSE stored

\* lines 223-249: the command never names CODE_VERIFIER
SlotAfterRefresh(stored, result) == stored

\* lines 239-248: the answer arrives and the command returns its result; the
\* result is kept in the state only when the run records outputs
RefreshResume ==
    /\ refresh.pc = "awaiting"
    /\ \E resp \in ProviderResponses :
        LET result == RefreshResult(resp)
        IN  /\ refresh' = IF trace.on THEN [pc |-> "done", result |-> result]
                          ELSE IdleRefresh
            /\ CODE_VERIFIER' = SlotAfterRefresh(CODE_VERIFIER, result)
    /\ UNCHANGED <<generated, call, flow, listener, trace, lock, other>>

(***************************************************************************)
(* dropbox_oauth_flow (desktop), lines 380-477, one action per stretch     *)
(* between two awaits.                                                     *)
(***************************************************************************)
\* variant: the flow sends the verifier of the shared slot
FlowTokenRequest_FromSlot(code, verifier, stored) ==
    TokenRequest(code, LOOPBACK_REDIRECT_URI, stored)

\* lines 448-457: the token request the flow sends for a received code;
\* `stored` is the content of CODE_VERIFIER at that moment
FlowTokenRequest(code, verifier, stored) ==
    TokenRequest(code, LOOPBACK_REDIRECT_URI, verifier)

\* lines 383-404: the PKCE pair, the state token and the authorization URL
FlowStart ==
    /\ flow.pc \in {"idle", "done"}
    /\ generated < MaxVerifiers
    /\ generated' = generated + 1
    /\ \E state \in StateTokens :
        flow' = [IdleFlow EXCEPT !.pc = "bind", !.verifier = generate_code_verifier,
                                 !.state = state]
    /\ trace' = [NoTrace EXCEPT !.on = trace.on]
    /\ UNCHANGED <<CODE_VERIFIER, call, refresh, listener, lock, other>>

\* the second invocation holds the TcpListener of the port: from its bind
\* (line 406) until it returns (the listener is a local of the function)
OtherHolds == other.pc \in {"launch", "wait", "exchange"}

\* variant: a bind looks only at the listener of its own invocation
PortFree_OwnListenerOnly == ~listener

\* line 406: TcpListener::bind on 127.0.0.1:8742 succeeds only while no
\* listener of the process is bound to the port
PortFree == ~listener /\ ~OtherHolds

\* lines 406-409: the bind succeeds
FlowBindOk ==
    /\ flow.pc = "bind"
    /\ PortFree
    /\ listener' = TRUE
    /\ flow' = [flow EXCEPT !.pc = "launch"]
    /\ UNCHANGED <<CODE_VERIFIER, generated, call, refresh, trace, lock, other>>

\* variant: a failed bind is logged and the flow goes on to the browser
FlowBindFail_GoesOn ==
    /\ flow.pc = "bind"
    /\ flow' = [flow EXCEPT !.pc = "launch"]
    /\ UNCHANGED <<CODE_VERIFIER, generated, call, refresh, listener, trace, lock, other>>

\* lines 406-409: the port is taken
FlowBindFail ==
    /\ flow.pc = "bind"
    /\ flow' = [flow EXCEPT !.pc = "done", !.result = "bind_error"]
    /\ UNCHANGED <<CODE_VERIFIER, generated, call, refresh, listener, trace, lock, other>>

\* lines 413-434: the browser is launched, or the spawn fails
FlowLaunchBrowser ==
    /\ flow.pc = "launch"
    /\ \/ /\ flow' = [flow EXCEPT !.pc = "accept"]
          /\ UNCHANGED listener
       \/ /\ flow' = [flow EXCEPT !.pc = "done", !.result = "browser_error"]
          /\ listener' = FALSE
    /\ UNCHANGED <<CODE_VERIFIER, generated, call, refresh, trace, lock, other>>

\* lines 491-493: a connection is accepted, or accept fails
FlowAccept ==
    /\ flow.pc = "accept"
    /\ \/ /\ flow' = [flow EXCEPT !.pc = "read"]
          /\ UNCHANGED listener
       \/ /\ flow' = [flow EXCEPT !.pc = "done", !.result = "callback_accept_error"]
          /\ listener' = FALSE
    /\ UNCHANGED <<CODE_VERIFIER, generated, call, refresh, trace, lock, other>>

\* lines 496-498: the read of the accepted connection fails
FlowReadFail ==
    /\ flow.pc = "read"
    /\ flow' = [flow EXCEPT !.pc = "done", !.result = "callback_read_error"]
    /\ listener' = FALSE
    /\ UNCHANGED <<CODE_VERIFIER, generated, call, refresh, trace, lock, other>>

\* the listener's outcome for every request and expected state, computed once
Handled == [req \in Requests, expected \in StateTokens |->
                HandleRequest(SocketRead(Render(req)), expected)]

\* lines 500-580: the read returns the bytes of `req` and the listener handles
\* them up to the await of the write_all that answers them; a state mismatch
\* writes nothing and goes back to accept (line 552)
FlowHandleRequest(req) ==
    LET out == Handled[req, flow.state]
    IN  /\ flow.pc = "read"
        /\ flow' = IF out.kind = "continue" THEN [flow EXCEPT !.pc = "accept"]
                   ELSE IF out.kind = "panic"
                   THEN [flow EXCEPT !.pc = "done", !.result = "panic"]
                   ELSE [flow EXCEPT !.pc = "write", !.out = out]
        /\ listener' = (out.kind # "panic")
        /\ trace' = IF trace.on
                    THEN [on |-> TRUE, req |-> req, resp |-> out.response,
                          skipped |-> IF out.kind \in {"continue", "not_found"}
                                      THEN trace.skipped \cup {out.kind}
                                      ELSE trace.skipped]
                    ELSE trace
        /\ UNCHANGED <<CODE_VERIFIER, generated, call, refresh, lock, other>>

FlowHandle == \E req \in Requests : FlowHandleRequest(req)

\* variant: the listener goes on accepting after it has returned a code
FlowAfter_KeepsListening(out) ==
    IF out.kind = "code"
    THEN [flow EXCEPT !.pc = "accept", !.out = NoOutcome, !.code = out.value,
                      !.sent = FlowTokenRequest(out.value, flow.verifier, CODE_VERIFIER)]
    ELSE IF out.kind = "error"
    THEN [flow EXCEPT !.pc = "done", !.out = NoOutcome,
                      !.result = "callback_oauth_error", !.error = out.value]
    ELSE [flow EXCEPT !.pc = "accept", !.out = NoOutcome]

\* lines 436-460, 546-547, 578-580 and 586-587: the flow once the write_all has
\* returned (its result is dropped); on a code the flow goes on to send the
\* token request
FlowAfter(out) ==
    IF out.kind = "code"
    THEN [flow EXCEPT !.pc = "exchange", !.out = NoOutcome, !.code = out.value,
                      !.sent = FlowTokenRequest(out.value, flow.verifier, CODE_VERIFIER)]
    ELSE IF out.kind = "error"
    THEN [flow EXCEPT !.pc = "done", !.out = NoOutcome,
                      !.result = "callback_oauth_error", !.error = out.value]
    ELSE [flow EXCEPT !.pc = "accept", !.out = NoOutcome]

FlowWrite ==
    /\ flow.pc = "write"
    /\ flow' = FlowAfter(flow.out)
    /\ listener' = (flow.out.kind # "error")
    /\ UNCHANGED <<CODE_VERIFIER, generated, call, refresh, trace, lock, other>>

\* variant: the timeout clears the slot
SlotAfterTimeout_Cleared(stored) == NoVerifier

\* lines 437-443: the slot after the wait has timed out (the flow leaves it)
SlotAfterTimeout(stored) == stored

\* variant: the timer is looked at only while the listener awaits a connection
FlowTimeout_WhileAccepting ==
    /\ flow.pc = "accept"
    /\ flow' = [flow EXCEPT !.pc = "done", !.out = NoOutcome, !.result = "timeout"]
    /\ listener' = FALSE
    /\ CODE_VERIFIER' = SlotAfterTimeout(CODE_VERIFIER)
    /\ UNCHANGED <<generated, call, refresh, trace, lock, other>>

\* lines 437-442: the five minutes elapse while the listener is awaiting
FlowTimeout ==
    /\ flow.pc \in {"accept", "read", "write"}
    /\ flow' = [flow EXCEPT !.pc = "done", !.out = NoOutcome, !.result = "timeout"]
    /\ listener' = FALSE
    /\ CODE_VERIFIER' = SlotAfterTimeout(CODE_VERIFIER)
    /\ UNCHANGED <<generated, call, refresh, trace, lock, other>>

\* the slot after the flow's exchange has succeeded
SlotAfterFlowExchange(stored, result) == stored

\* lines 462-476: the provider's answer to the flow's token request
FlowExchangeResume ==
    /\ flow.pc = "exchange"
    /\ \E resp \in ProviderResponses :
        LET result == ExchangeResult(resp)
        IN  /\ flow' = [flow EXCEPT !.pc = "done", !.result = result]
            /\ CODE_VERIFIER' = SlotAfterFlowExchange(CODE_VERIFIER, result)
    /\ listener' = FALSE
    /\ UNCHANGED <<generated, call, refresh, trace, lock, other>>

(***************************************************************************)
(* A second invocation of dropbox_oauth_flow, running beside the first; it *)
(* is followed through the stages that take, keep and release the port.    *)
(***************************************************************************)
\* lines 380-404
OtherFlowStart ==
    /\ other.pc \in {"idle", "done"}
    /\ other' = [pc |-> "bind", result |-> "none"]
    /\ UNCHANGED <<CODE_VERIFIER, generated, call, refresh, flow, listener, trace, lock>>

\* lines 406-409: the bind succeeds
OtherFlowBindOk ==
    /\ other.pc = "bind"
    /\ PortFree
    /\ other' = [other EXCEPT !.pc = "launch"]
    /\ UNCHANGED <<CODE_VERIFIER, generated, call, refresh, flow, listener, trace, lock>>

\* lines 406-409: the port is taken
OtherFlowBindFail ==
    /\ other.pc = "bind"
    /\ other' = [pc |-> "done", result |-> "bind_error"]
    /\ UNCHANGED <<CODE_VERIFIER, generated, call, refresh, flow, listener, trace, lock>>

\* lines 413-434: the browser is launched, or the spawn fails
OtherFlowLaunchBrowser ==
    /\ other.pc = "launch"
    /\ \/ other' = [other EXCEPT !.pc = "wait"]
       \/ other' = [pc |-> "done", result |-> "browser_error"]
    /\ UNCHANGED <<CODE_VERIFIER, generated, call, refresh, flow, listener, trace, lock>>

\* lines 436-443: the wait yields a code, or ends with the timeout or with the
\* listener's error
OtherFlowWaitEnds ==
    /\ other.pc = "wait"
    /\ \/ other' = [other EXCEPT !.pc = "exchange"]
       \/ \E result \in {"timeout", "callback_error"} :
            other' = [pc |-> "done", result |-> result]
    /\ UNCHANGED <<CODE_VERIFIER, generated, call, refresh, flow, listener, trace, lock>>

\* lines 447-476: the token request is answered
OtherFlowExchangeEnds ==
    /\ other.pc = "exchange"
    /\ \E resp \in ProviderResponses :
        other' = [pc |-> "done", result |-> ExchangeResult(resp)]
    /\ UNCHANGED <<CODE_VERIFIER, generated, call, refresh, flow, listener, trace, lock>>

(***************************************************************************)
(* A thread panics while it holds the guard of CODE_VERIFIER: the Mutex is *)
(* poisoned from then on (nothing in lib.rs clears the poison).            *)
(***************************************************************************)
PoisonLock ==
    /\ LockAvailable
    /\ ~lock.poisoned
    /\ lock' = [lock EXCEPT !.poisoned = TRUE]
    /\ UNCHANGED <<CODE_VERIFIER, generated, call, refresh, flow, listener, trace, other>>

(***************************************************************************)
(* Specifications.  The commands run concurrently on the async runtime.    *)
(***************************************************************************)
StartAuth ==
    \/ dropbox_start_auth
    \/ dropbox_get_auth_url

Exchange ==
    \/ dropbox_exchange_code
    \/ dropbox_exchange_code_android
    \/ \E op \in Calls : ExchangeResume(op)

Refresh ==
    \/ RefreshBegin
    \/ RefreshResume

DesktopFlow ==
    \/ FlowStart
    \/ FlowBindOk
    \/ FlowBindFail
    \/ FlowLaunchBrowser
    \/ FlowAccept
    \/ FlowReadFail
    \/ FlowHandle
    \/ FlowWrite
    \/ FlowTimeout
    \/ FlowExchangeResume

\* every command, in every interleaving
OtherFlow ==
    \/ OtherFlowStart
    \/ OtherFlowBindOk
    \/ OtherFlowBindFail
    \/ OtherFlowLaunchBrowser
    \/ OtherFlowWaitEnds
    \/ OtherFlowExchangeEnds

Next == StartAuth \/ Exchange \/ Refresh \/ DesktopFlow

Spec == Init /\ [][Next]_vars

\* the desktop flow beside the start-auth commands, with the listener's
\* connections recorded
InitTraced ==
    /\ CODE_VERIFIER = NoVerifier
    /\ generated = 0
    /\ call = [i \in Calls |-> IdleCall]
    /\ refresh = IdleRefresh
    /\ flow = IdleFlow
    /\ listener = FALSE
    /\ trace = EmptyTrace
    /\ lock = FreeLock
    /\ other = IdleOther

NextTraced == StartAuth \/ DesktopFlow

SpecTraced == InitTraced /\ [][NextTraced]_vars

\* the commands that work on the slot or on the token endpoint, without the
\* desktop flow, with their outputs recorded
NextCommands == StartAuth \/ Exchange \/ Refresh

SpecCommands == InitTraced /\ [][NextCommands]_vars

\* the same, with the timer of tokio::time::timeout (lines 437-442): it is
\* polled whenever the wait is pending, so a wait that goes on is cut
SpecFlowFair == InitTraced /\ [][NextTraced]_vars /\ WF_vars(FlowTimeout)

\* two invocations of the desktop flow side by side
NextTwoFlows == DesktopFlow \/ OtherFlow

SpecTwoFlows == Init /\ [][NextTwoFlows]_vars

\* the same commands with a lock that may get poisoned
NextPoison == StartAuth \/ Exchange \/ PoisonLock

SpecPoison == Init /\ [][NextPoison]_vars

(***************************************************************************)
(* Vocabulary of the properties.                                           *)
(***************************************************************************)
ExchangeResults ==
    {"token", "parse_error", "http_error", "read_error", "provider_error", "unknown_error"}

\* the provider answered 2xx with a body that parses as a token response
AnsweredWithToken(c) ==
    /\ c.answer.transport = "ok"
    /\ IsSuccess(c.answer.status)
    /\ ParsesAsToken(c.answer.body)

\* invocation i gets the provider's answer in this step
ExchangeEnds(i) == call[i].pc = "awaiting" /\ call'[i].pc = "done"

\* invocation i begins in this step
ExchangeBegins(i) ==
    /\ call[i].pc \in {"idle", "done"}
    /\ call'[i] # call[i]

\* the flow's wait ended with a code / with a provider error of a request
WaitEndedWithCode ==
    flow.pc = "exchange" \/ (flow.pc = "done" /\ flow.result \in ExchangeResults)
WaitEndedWithProviderError ==
    flow.pc = "done" /\ flow.result = "callback_oauth_error"

\* the listener is in the write_all that answers a request with outcome `kind`
Answering(kind) == flow.pc = "write" /\ flow.out.kind = kind

\* the flow is inside wait_for_oauth_callback, under the timeout
InCallbackWait == flow.pc \in {"accept", "read", "write"}

\* the timeout of the flow has cancelled the wait
CutByTimeout == flow.pc = "done" /\ flow.result = "timeout"

\* the request handled last did not end the wait
WaitNotEndedByRequest ==
    \/ flow.pc \in {"accept", "read", "write"}
    \/ /\ flow.pc = "done"
       /\ flow.result \in {"timeout", "callback_accept_error", "callback_read_error"}

\* r is a GET request for exactly /callback
IsCallbackRequest(r) == r.method = T_GET /\ r.path = P_CALLBACK

(***************************************************************************)
(* C1: a verifier stored in CODE_VERIFIER is sent in at most one exchange  *)
(* that the provider answers with success.                                 *)
(***************************************************************************)
C1_VerifierInAtMostOneSuccessfulExchange ==
    \A i, j \in Calls :
        (i # j /\ call[i].result = "token" /\ call[j].result = "token")
            => call[i].sent.code_verifier # call[j].sent.code_verifier

(***************************************************************************)
(* C2: a request ends the wait of wait_for_oauth_callback (with a code or  *)
(* with a provider error) only if its state parameter equals the expected  *)
(* state; a request with no state or another state never ends it.          *)
(***************************************************************************)
C2_OnlyExpectedStateEndsWait ==
    (WaitEndedWithCode \/ WaitEndedWithProviderError)
        => /\ HasParam(trace.req, K_STATE)
           /\ ParamValue(trace.req, K_STATE) = flow.state

(***************************************************************************)
(* C3: in every interleaving of the commands, the listener of the desktop  *)
(* flow turns a callback with the expected state and a code C (and no      *)
(* error parameter) into the outcome "code C", and the flow that has got   *)
(* that outcome sends a token request with exactly C and the verifier it   *)
(* generated at its start, a verifier no other command was given and that  *)
(* the flow keeps whatever is put in CODE_VERIFIER meanwhile; only the     *)
(* timeout firing during the listener's answer prevents the request.       *)
(***************************************************************************)
CallbackWithCode(r, expected) ==
    /\ IsCallbackRequest(r)
    /\ ~HasParam(r, K_ERROR)
    /\ HasParam(r, K_STATE)
    /\ ParamValue(r, K_STATE) = expected
    /\ HasParam(r, K_CODE)

\* the requests that are callbacks with a code for the expected state
CodeCallbacks ==
    [expected \in StateTokens |-> {r \in Requests : CallbackWithCode(r, expected)}]

\* the step is the start of a flow
FlowStarts == flow.pc \in {"idle", "done"} /\ flow'.pc = "bind"

C3_FlowSendsReceivedCodeWithOwnVerifier ==
    /\ [](flow.pc = "read"
            => \A req \in CodeCallbacks[flow.state] :
                Handled[req, flow.state]
                    = Outcome("code", ParamValue(req, K_CODE), SuccessPage))
    /\ [][/\ FlowStarts
               => /\ flow'.verifier = generated'
                  /\ generated' > generated
          /\ ~FlowStarts => flow'.verifier = flow.verifier
          /\ (Answering("code") /\ flow' # flow)
               => \/ CutByTimeout' /\ flow'.sent = NoTokenRequest
                  \/ /\ flow'.pc = "exchange"
                     /\ flow'.sent = TokenRequest(flow.out.value, LOOPBACK_REDIRECT_URI,
                                                  flow.verifier)]_vars

\* the flow has sent its request while an exchange command was awaiting its
\* answer and the slot held the verifier of a later start-auth
C3_Witness ==
    /\ flow.pc = "exchange"
    /\ flow.sent = TokenRequest(<<"A", "B", "C">>, LOOPBACK_REDIRECT_URI, flow.verifier)
    /\ flow.verifier # NoVerifier
    /\ CODE_VERIFIER \notin {NoVerifier, flow.verifier}
    /\ call["dropbox_exchange_code"].pc = "awaiting"

(***************************************************************************)
(* C4: CODE_VERIFIER goes from holding a value to empty only in the step   *)
(* in which an exchange command gets a 2xx answer that parses as a token   *)
(* response; the step in which an exchange fails (transport error, non-2xx,*)
(* malformed body) leaves the slot as it was.                              *)
(***************************************************************************)
C4_ClearedOnlyBySuccessfulExchange ==
    [][/\ (CODE_VERIFIER # NoVerifier /\ CODE_VERIFIER' = NoVerifier)
            => \E i \in Calls : ExchangeEnds(i) /\ AnsweredWithToken(call'[i])
       /\ \A i \in Calls :
            (ExchangeEnds(i) /\ ~AnsweredWithToken(call'[i]))
                => CODE_VERIFIER' = CODE_VERIFIER]_vars

\* a failed exchange has left its verifier in the slot
C4_Witness ==
    /\ call["dropbox_exchange_code"].pc = "done"
    /\ call["dropbox_exchange_code"].result = "parse_error"
    /\ call["dropbox_exchange_code_android"].pc = "idle"
    /\ CODE_VERIFIER # NoVerifier
    /\ CODE_VERIFIER = call["dropbox_exchange_code"].sent.code_verifier

(***************************************************************************)
(* C5: an exchange command invoked while CODE_VERIFIER is empty returns    *)
(* the "no code verifier" error, sends nothing and leaves the slot empty;  *)
(* an exchange command that sends a request sends the verifier it read     *)
(* from the slot.                                                          *)
(***************************************************************************)
C5_NoRequestWithoutStoredVerifier ==
    [][\A i \in Calls :
        ExchangeBegins(i)
            => IF CODE_VERIFIER = NoVerifier
               THEN /\ call'[i].pc = "done"
                    /\ call'[i].result = "no_verifier"
                    /\ call'[i].sent = NoTokenRequest
                    /\ CODE_VERIFIER' = NoVerifier
               ELSE /\ call'[i].pc = "awaiting"
                    /\ call'[i].sent.code_verifier = CODE_VERIFIER]_vars

\* an exchange found the slot empty after an earlier exchange had cleared it
C5_Witness ==
    /\ call["dropbox_exchange_code"].result = "token"
    /\ call["dropbox_exchange_code_android"].result = "no_verifier"
    /\ call["dropbox_exchange_code_android"].sent = NoTokenRequest
    /\ CODE_VERIFIER = NoVerifier

(***************************************************************************)
(* C6: a /callback request whose state parameter is present and differs    *)
(* from the expected state never ends the wait, whatever code it carries.  *)
(***************************************************************************)
DiffersInState(r, expected) ==
    HasParam(r, K_STATE) /\ ParamValue(r, K_STATE) # expected

C7_MatchingOrAbsentStateReturnsCode ==
    /\ (/\ IsCallbackRequest(trace.req)
        /\ ~HasParam(trace.req, K_ERROR)
        /\ ~DiffersInState(trace.req, flow.state)
        /\ HasParam(trace.req, K_CODE))
            => /\ trace.resp = SuccessPage
               /\ WaitEndedWithCode \/ Answering("code") \/ CutByTimeout
    /\ Answering("code")
            => /\ HasParam(trace.req, K_CODE)
               /\ flow.out.value = ParamValue(trace.req, K_CODE)
    /\ WaitEndedWithCode
            => /\ HasParam(trace.req, K_CODE)
               /\ flow.code = ParamValue(trace.req, K_CODE)

\* a request without a state parameter ended the wait with its code
C7_Witness ==
    /\ IsCallbackRequest(trace.req)
    /\ ~HasParam(trace.req, K_STATE)
    /\ HasParam(trace.req, K_CODE)
    /\ flow.pc = "exchange"
    /\ flow.code = <<"A", "B", "C">>

(***************************************************************************)
(* C8: a /callback request with an error parameter E ends the wait with a  *)
(* provider error carrying E, after the error page is written, whatever    *)
(* its state and code parameters; the flow returns an error (that provider *)
(* error, or the timeout error when the timeout fires during the write of  *)
(* the page) and sends no token request.                                   *)
(***************************************************************************)
C8_ErrorParameterEndsFlow ==
    (IsCallbackRequest(trace.req) /\ HasParam(trace.req, K_ERROR))
        => /\ trace.resp = ErrorPage(ParamValue(trace.req, K_ERROR))
           /\ flow.sent = NoTokenRequest
           /\ \/ /\ WaitEndedWithProviderError
                 /\ flow.error = ParamValue(trace.req, K_ERROR)
              \/ /\ Answering("error")
                 /\ flow.out.value = ParamValue(trace.req, K_ERROR)
              \/ CutByTimeout

\* an error request with a foreign state and a code ended the flow
C8_Witness ==
    /\ IsCallbackRequest(trace.req)
    /\ HasParam(trace.req, K_ERROR)
    /\ DiffersInState(trace.req, flow.state)
    /\ WaitEndedWithProviderError

(***************************************************************************)
(* C9: a request whose path is not exactly /callback gets 404 and does not *)
(* end the wait, whatever its query carries.                               *)
(***************************************************************************)
C9_OtherPathsGetNotFound ==
    (trace.req # NoRequest /\ trace.req.path # P_CALLBACK)
        => (trace.resp = NotFound /\ WaitNotEndedByRequest)

(***************************************************************************)
(* C10: when the timeout ends the wait of the desktop flow (at the accept,  *)
(* the read or the write of the listener), the flow returns the timeout    *)
(* error, has sent no token request, and the step leaves CODE_VERIFIER as  *)
(* it was.                                                                 *)
(***************************************************************************)
C10_TimeoutLeavesVerifier ==
    /\ [][(flow.pc \in {"accept", "read", "write"} /\ flow'.result = "timeout")
            => (CODE_VERIFIER' = CODE_VERIFIER /\ flow'.sent = NoTokenRequest)]_vars
    /\ [](flow.result = "timeout" => (flow.pc = "done" /\ flow.sent = NoTokenRequest))

\* the flow timed out while a start-auth verifier was stored
C10_Witness ==
    /\ flow.result = "timeout"
    /\ CODE_VERIFIER # NoVerifier

(***************************************************************************)
(* C11: the desktop flow launches the browser only while it holds the      *)
(* bound port: the launch step is reached only by a successful bind, and a *)
(* bind that fails ends the flow at once with the bind error, before any   *)
(* browser launch, with no connection handled, no code and no token        *)
(* request.                                                                *)
(***************************************************************************)
C11_BindBeforeBrowser ==
    /\ [][/\ (flow.pc = "launch" /\ flow' # flow) => listener
          /\ (flow'.pc = "launch" /\ flow.pc # "launch")
                => (flow.pc = "bind" /\ ~listener /\ listener')
          /\ (flow.pc = "bind" /\ flow' # flow /\ ~listener')
                => (flow'.pc = "done" /\ flow'.result = "bind_error")]_vars
    /\ [](flow.result = "bind_error"
            => /\ flow.pc = "done"
               /\ ~listener
               /\ flow.out = NoOutcome
               /\ flow.code = <<>>
               /\ flow.sent = NoTokenRequest
               /\ trace.req = NoRequest)

\* a flow has ended with the bind error
C11_Witness ==
    /\ flow.pc = "done"
    /\ flow.result = "bind_error"
    /\ flow.verifier # NoVerifier

(***************************************************************************)
(* C12: every start-auth command overwrites the slot with the verifier it  *)
(* has just generated, whatever the slot held: the slot never holds a      *)
(* verifier older than the one generated last, and an exchange that begins *)
(* after a later start-auth sends the later verifier.                      *)
(***************************************************************************)
C12_StartAuthOverwrites ==
    /\ [][generated' # generated
            => /\ CODE_VERIFIER' = generated'
               /\ CODE_VERIFIER' # CODE_VERIFIER]_vars
    /\ [](CODE_VERIFIER \in {NoVerifier, generated})
    /\ [][\A op \in Calls :
            ExchangeBegins(op) /\ call'[op].pc = "awaiting"
                => call'[op].sent.code_verifier = generated]_vars

\* after a second start-auth with no exchange before it, an exchange has been
\* sent with the second verifier, which is the one in the slot
C12_Witness ==
    /\ generated = 2
    /\ CODE_VERIFIER = 2
    /\ \E op \in Calls :
        /\ call[op].pc = "awaiting"
        /\ call[op].sent.code_verifier = 2
        /\ \A rest \in Calls \ {op} : call[rest] = IdleCall

(***************************************************************************)
(* C13: the desktop flow stores the verifier it generated in the slot      *)
(* before it binds the listener, and clears the slot only when its token   *)
(* exchange succeeds: the step that returns a token leaves the slot empty, *)
(* and the step that returns an exchange failure leaves the flow's         *)
(* verifier in it (no start-auth command having stored a later one).       *)
(***************************************************************************)
C13_FlowStoresAndClearsVerifier ==
    [][/\ FlowStarts => CODE_VERIFIER' = flow'.verifier
       /\ (flow.pc = "exchange" /\ flow'.pc = "done" /\ flow'.result = "token")
            => CODE_VERIFIER' = NoVerifier
       /\ (/\ flow.pc = "exchange" /\ flow'.pc = "done"
           /\ flow'.result \in ExchangeResults \ {"token"}
           /\ generated = flow.verifier)
            => CODE_VERIFIER' = flow.verifier]_vars

(***************************************************************************)
(* C14: the outcome of an exchange is determined by the provider's answer: *)
(* 2xx with a well-formed token body gives a token carrying the body's     *)
(* access token; 2xx with a body that is not JSON gives a parse error; a   *)
(* non-2xx status with a structured error body gives the provider's error  *)
(* code; a non-2xx status with a body that is not JSON gives the generic   *)
(* error carrying the raw body; a transport failure gives a transport      *)
(* error.  A call sends one request: while it waits, and when the answer   *)
(* ends it, the request it sent is the one it sent at first.               *)
(***************************************************************************)
C14_ExchangeOutcomeByStatusAndBody ==
    /\ [](\A i \in Calls :
            LET c == call[i]
                a == call[i].answer
                ok == a.transport = "ok"
                success == 200 <= a.status /\ a.status <= 299
            IN  (c.pc = "done" /\ a # NoAnswer)
                    => /\ (/\ ok /\ success /\ a.body.json
                           /\ HasField(a.body, "access_token")
                           /\ HasField(a.body, "token_type"))
                            => /\ c.result = "token"
                               /\ c.carries = Field(a.body, "access_token")
                       /\ (ok /\ success /\ ~a.body.json)
                            => c.result = "parse_error"
                       /\ (ok /\ ~success /\ a.body.json /\ HasField(a.body, "error"))
                            => /\ c.result = "provider_error"
                               /\ c.carries = Field(a.body, "error")
                       /\ (ok /\ ~success /\ ~a.body.json)
                            => /\ c.result = "unknown_error"
                               /\ c.carries = a.body.raw
                       /\ ~ok => /\ c.result \in {"http_error", "read_error"}
                                 /\ c.carries = a.transport
                       /\ c.sent # NoTokenRequest)
    /\ [][\A i \in Calls :
            call[i].pc = "awaiting"
                => /\ call'[i].pc \in {"awaiting", "done"}
                   /\ call'[i].sent = call[i].sent]_vars

\* one exchange returned the token of the body, the other a transport error
C14_Witness ==
    /\ call["dropbox_exchange_code"].pc = "done"
    /\ call["dropbox_exchange_code"].answer.status = 200
    /\ call["dropbox_exchange_code"].result = "token"
    /\ call["dropbox_exchange_code"].carries = "x"
    /\ call["dropbox_exchange_code_android"].pc = "done"
    /\ call["dropbox_exchange_code_android"].answer.transport = "send_error"
    /\ call["dropbox_exchange_code_android"].result = "http_error"

(***************************************************************************)
(* C15: dropbox_refresh_token involves no verifier: its steps leave the    *)
(* slot, the lock and the exchange calls as they are, whatever its result, *)
(* and it behaves the same whether the slot is empty or full: in every     *)
(* state it can be invoked when it is not waiting, and when it waits it    *)
(* can return each of its results.                                         *)
(***************************************************************************)
C15_RefreshLeavesVerifierAlone ==
    /\ [][refresh' # refresh
            => /\ CODE_VERIFIER' = CODE_VERIFIER
               /\ lock' = lock
               /\ generated' = generated
               /\ call' = call]_vars
    /\ [](refresh.pc # "awaiting" => ENABLED RefreshBegin)
    /\ [](refresh.pc = "awaiting"
            => \A result \in {"token", "parse_error", "refresh_failed",
                              "http_error", "read_error"} :
                 ENABLED (RefreshResume /\ refresh'.result = result))

\* a refresh returned a token while an authorization attempt was pending: the
\* verifier is in the slot and an exchange with it waits for its answer
C15_Witness ==
    /\ refresh.pc = "done"
    /\ refresh.result = "token"
    /\ CODE_VERIFIER # NoVerifier
    /\ \E i \in Calls :
        call[i].pc = "awaiting" /\ call[i].sent.code_verifier = CODE_VERIFIER

C17_ExchangeReadClearsSlot ==
    [][\A i \in Calls :
        (ExchangeBegins(i) /\ call'[i].pc = "awaiting")
            => /\ call'[i].sent.code_verifier = CODE_VERIFIER
               /\ CODE_VERIFIER' = NoVerifier]_vars

(***************************************************************************)
(* C18: the lock of CODE_VERIFIER is never held while an operation is      *)
(* suspended: whenever an exchange or a refresh waits for the provider's   *)
(* answer, or the desktop flow waits in accept, read, write or for its own *)
(* token answer, the lock is free; and each critical section is a single   *)
(* read or a single write: the read of an exchange leaves the slot as it   *)
(* is, and the slot changes only by the store of a start-auth command or   *)
(* by the clear of an exchange that returns a token.                       *)
(***************************************************************************)
C18_LockFreeWhileSuspended ==
    /\ []((\/ \E i \in Calls : call[i].pc = "awaiting"
           \/ refresh.pc = "awaiting"
           \/ InCallbackWait
           \/ flow.pc = "exchange")
            => lock.holder = NoHolder)
    /\ [][\A i \in Calls : ExchangeBegins(i) => CODE_VERIFIER' = CODE_VERIFIER]_vars
    /\ [][CODE_VERIFIER' # CODE_VERIFIER
            => \/ generated' # generated /\ CODE_VERIFIER' = generated'
               \/ /\ CODE_VERIFIER' = NoVerifier
                  /\ \E i \in Calls : ExchangeEnds(i) /\ call'[i].result = "token"]_vars

\* an exchange, the refresh and the listener of the flow are all suspended
C18_Witness ==
    /\ \E i \in Calls : call[i].pc = "awaiting"
    /\ refresh.pc = "awaiting"
    /\ flow.pc = "read"
    /\ lock.holder = NoHolder

(***************************************************************************)
(* C19: the listener handles one connection at a time: a connection is     *)
(* accepted only from the accept of the loop, when the previous one has    *)
(* been read and answered or dropped; once a request has yielded a code no *)
(* further connection is accepted in that attempt, so an attempt extracts  *)
(* at most one code and sends at most one token request, which carries     *)
(* that code.                                                              *)
(***************************************************************************)
C19_OneConnectionAtATime ==
    /\ [][/\ (flow'.pc = "read" /\ flow.pc # "read")
                => (flow.pc = "accept" /\ flow.out = NoOutcome)
          /\ (flow'.pc = "accept" /\ flow.pc # "accept")
                => flow.pc \in {"launch", "read", "write"}
          /\ (flow.pc = "write" /\ flow.out.kind = "code" /\ flow' # flow)
                => flow'.pc \in {"exchange", "done"}
          /\ (flow.pc \in {"exchange", "done"} /\ ~FlowStarts)
                => /\ flow'.pc \in {"exchange", "done"}
                   /\ flow'.code = flow.code
                   /\ flow'.sent = flow.sent]_vars
    /\ [](flow.code # <<>> => flow.pc \in {"exchange", "done"})
    /\ [](flow.sent # NoTokenRequest
            => flow.code # <<>> /\ flow.sent.code = flow.code)
    /\ [](InCallbackWait => flow.code = <<>> /\ flow.sent = NoTokenRequest)

\* the attempt handled more than one connection and is sending its one token
\* request, with the code it extracted
C19_Witness ==
    /\ flow.pc = "exchange"
    /\ trace.skipped # {}
    /\ flow.code # <<>>
    /\ flow.sent.code = flow.code

(***************************************************************************)
(* C20: with the lock of CODE_VERIFIER poisoned, every operation that      *)
(* needs the slot fails with a lock error: a start-auth command returns a  *)
(* URL only for a verifier it has stored, an exchange ends with the lock   *)
(* error and sends nothing, and a start-auth command that comes after      *)
(* leaves a stored verifier that the next exchange sends.                  *)
(***************************************************************************)
C20_PoisonedLockFailsAndRecovers ==
    /\ [][generated' # generated
            => (StartAuthReturn(lock, generated').kind = "url"
                    => CODE_VERIFIER' = generated')]_vars
    /\ [][\A i \in Calls :
            (lock.poisoned /\ ExchangeBegins(i))
                => /\ call'[i].result = "lock_error"
                   /\ call'[i].sent = NoTokenRequest]_vars
    /\ [](generated > 0 /\ CODE_VERIFIER # NoVerifier => CODE_VERIFIER = generated)

(***************************************************************************)
(* C21: an exchange that returns a token clears only the verifier it sent: *)
(* when the slot holds another verifier by then, stored by a start-auth    *)
(* command while the exchange was waiting, the step that returns the token *)
(* leaves the slot as it is.                                               *)
(***************************************************************************)
C21_SuccessClearsOnlyOwnVerifier ==
    [][\A i \in Calls :
        (/\ ExchangeEnds(i)
         /\ call'[i].result = "token"
         /\ CODE_VERIFIER # call[i].sent.code_verifier)
            => CODE_VERIFIER' = CODE_VERIFIER]_vars

(***************************************************************************)
(* C22: at most one invocation of the desktop flow holds the callback port *)
(* at any time.  An invocation holds it from its bind until it returns,    *)
(* its token exchange included; while one holds it, the bind of the other  *)
(* fails with the bind error, before any browser launch, wait or token     *)
(* request; once the holder has returned, by a token, an error or the      *)
(* timeout, the port is free and a bind can succeed again.                 *)
(***************************************************************************)
C22_OneFlowHoldsThePort ==
    /\ [](~(listener /\ OtherHolds))
    /\ [](listener <=> flow.pc \in {"launch", "accept", "read", "write", "exchange"})
    /\ [][(flow.pc = "bind" /\ OtherHolds /\ flow' # flow)
            => /\ flow'.pc = "done"
               /\ flow'.result = "bind_error"
               /\ flow'.sent = NoTokenRequest
               /\ ~listener']_vars
    /\ [][(other.pc = "bind" /\ listener /\ other' # other)
            => (other'.pc = "done" /\ other'.result = "bind_error")]_vars
    /\ [][other'.pc \in {"launch", "wait", "exchange"}
            => (other.pc \in {"launch", "wait", "exchange"} \/ (other.pc = "bind" /\ ~listener))]_vars
    /\ [](flow.pc = "bind" /\ ~OtherHolds => ENABLED FlowBindOk)
    /\ [](other.pc = "bind" /\ ~listener => ENABLED OtherFlowBindOk)

\* the bind of the second invocation has failed while the first is in its token
\* exchange and holds the port
C22_Witness ==
    /\ flow.pc = "exchange"
    /\ listener
    /\ other.pc = "done"
    /\ other.result = "bind_error"

(***************************************************************************)
(* C23: wait_for_oauth_callback terminates in exactly three ways: with a   *)
(* code, with the provider error of an error parameter, or with the error  *)
(* of a failed accept or read (the timeout is the caller's, which drops    *)
(* the wait); a connection whose request is not a GET of /callback with a  *)
(* code or an error, or whose state differs from the expected one with no  *)
(* error parameter, leaves the listener awaiting the next connection.      *)
(***************************************************************************)
C23_WaitTerminatesInThreeWays ==
    /\ [][(InCallbackWait /\ ~InCallbackWait' /\ ~CutByTimeout')
            => \/ flow'.pc = "exchange"
               \/ /\ flow'.pc = "done"
                  /\ flow'.result \in {"callback_oauth_error", "callback_accept_error",
                                       "callback_read_error"}]_vars
    /\ []((/\ trace.req # NoRequest
           /\ ~(/\ IsCallbackRequest(trace.req)
                /\ \/ HasParam(trace.req, K_ERROR)
                   \/ /\ HasParam(trace.req, K_CODE)
                      /\ ~DiffersInState(trace.req, flow.state)))
            => WaitNotEndedByRequest)

====
